---- MODULE Spec2Model ----
(***************************************************************************)
(* Model of the weekly MACD screener (src/scanner.py) and of its HTTP      *)
(* trigger (src/app.py).                                                   *)
(*                                                                         *)
(* The specifications of the module:                                       *)
(*   Spec          main() driven by app.run(): universe load, scan loop,   *)
(*                 sort, CSV file, Telegram notification, HTTP response    *)
(*   SpecFetch     one call of binance_get(), one mirror attempt per step  *)
(*   SpecScreen    the pure function screen() applied to bounded inputs    *)
(*   SpecUniverse  get_all_usdt_spot_symbols() on exchangeInfo snapshots   *)
(*   SpecTwin      two scans, one after the other, over the same market    *)
(*   SpecTerm      a call or a scan under weak fairness of its steps       *)
(*   SpecOverlap   scanner processes of requests that app.py serves at     *)
(*                 once, sharing the output file                           *)
(*                                                                         *)
(* Numbers.  Python floats are modelled by scaled integers; the float      *)
(* NaN that pd.to_numeric(errors="coerce") produces is the record NaN.     *)
(*   prices      in units of 0.001           (min_price 0.005 is 5)        *)
(*   volumes     in units of 75000           (min_vol 300000 is 4)         *)
(*   indicators  in tenths of 0.25e-6  (10 = span + 1 of the signal EMA)   *)
(* Binary rounding error of float arithmetic is not modelled: arithmetic   *)
(* is exact and round() is round-half-to-even.                             *)
(***************************************************************************)
EXTENDS Integers, Sequences, FiniteSets, TLC

VARIABLES
    \* ---- screen() as a pure function (SpecScreen)
    df,          \* the series handed to screen(), or NoDf
    min_qv,      \* screen's min_qv argument
    min_price,   \* screen's min_price argument
    rec,         \* what screen() produced: Pending before the call
    \* ---- one call of binance_get() (SpecFetch)
    served,      \* what each mirror answers to this request
    fetch,       \* the call's locals: endpoints, attempt, last_err, and its
                 \* history: mirrors contacted, backoff sleeps, outcome
    \* ---- main() and app.run() (Spec)
    launch,      \* how scanner.py was started: "none", "http" or "cli"
    pc,          \* position of main()
    load,        \* how the exchangeInfo fetch ended: "none", "returned", "raised"
    syms,        \* the universe, as main() holds it
    results,     \* main()'s list of match rows
    trace,       \* history: per loop iteration, the symbol and what its
                 \* fetch produced
    out_file,    \* args.out on disk
    file0,       \* history: args.out as it was before the scan
    telegram,    \* history: the calls of send_telegram_file / _text
    exit_code,   \* exit status of the scanner process, -1 while it runs
    response,    \* what app.run() answered
    \* ---- get_all_usdt_spot_symbols() on its own (SpecUniverse)
    info,        \* the "symbols" array of the exchangeInfo body
    universe,    \* what the loader produced: Pending before the call
    \* ---- two scans of the same market (SpecTwin)
    market,      \* per symbol: what each mirror answers, and the klines body
    twin,        \* the two scans: position, universe, match rows
    \* ---- two requests served by app.py at once (SpecOverlap)
    procs        \* per request: position of its scanner process, its rows

otherVars == <<info, universe, market, twin, procs>>

(***************************************************************************)
(* Floats with NaN                                                         *)
(***************************************************************************)
NaN == [nan |-> TRUE, v |-> 0]
Num(x) == [nan |-> FALSE, v |-> x]

\* a < b on floats: every comparison with NaN is False
FLt(a, b) == ~a.nan /\ ~b.nan /\ a.v < b.v

Abs(x) == IF x < 0 THEN -x ELSE x
Max(a, b) == IF a >= b THEN a ELSE b

\* round(n / d) for d > 0, ties to the even integer (Python's round)
RoundDiv(n, d) ==
    LET q == n \div d
        r == n % d
    IN  IF 2 * r < d THEN q
        ELSE IF 2 * r > d THEN q + 1
        ELSE IF q % 2 = 0 THEN q ELSE q + 1

(***************************************************************************)
(* Series.  A DataFrame of weekly bars is represented by what screen()     *)
(* reads of it:                                                            *)
(*   len               number of bars                                      *)
(*   close             df["close"].iloc[-1]   (float, NaN when coerced)    *)
(*   quoteAssetVolume  df["quoteAssetVolume"].tail(6)   (6 floats)         *)
(*   macd_prev         EMA12 - EMA26 of the closes at the bar before last  *)
(*   macd_last         EMA12 - EMA26 at the last bar when the last close   *)
(*                     is a number                                         *)
(*   signal_prev       the signal line at the bar before last              *)
(* At least one close before the last bar is a number, so the three        *)
(* indicator values are numbers.                                           *)
(***************************************************************************)
MinBars == 35          \* len(df) < 35
SignalSpan == 9        \* macd(close, fast=12, slow=26, signal=9)
MicroUnits == 40       \* round(x, 6): 1e-6 in tenths of 0.25e-6
TolAbs == 4            \* 1e-9, scaled by 100, in tenths of 0.25e-6
TolRelPct == 15        \* 0.15, scaled by 100
CloseQuanta == 100000  \* round(last_close, 8): 0.001 in units of 1e-8
CentsPerVolUnit == 7500000  \* round(avg_qv6, 2): 75000 in units of 0.01
DefaultMinVol == 4     \* --min-vol default=300000.0
DefaultMinPrice == 5   \* --min-price default=0.005
VolCap == 10           \* avg_qv6 / (10 * min_qv)

MaxInd == 6            \* indicator inputs range over -MaxInd .. MaxInd

NoDf == [len |-> 0]
Pending == [kind |-> "pending"]
None == [kind |-> "None"]
ZeroDivisionError == [kind |-> "raise", exc |-> "ZeroDivisionError"]

\* One step of s.ewm(span=span, adjust=False).mean(), in units of
\* 1/(span+1):  (span+1) * EMA[i] = 2 * x[i] + (span-1) * EMA[i-1].
\* A NaN observation leaves the average where it was.
ema(prev, x, span) ==
    IF x.nan THEN (span + 1) * prev ELSE 2 * x.v + (span - 1) * prev

\* The last two points of the MACD line, the signal line and the histogram,
\* all in units of 1/(SignalSpan+1).
macd(d) ==
    LET scale == SignalSpan + 1
        mp == d.macd_prev
        mn == IF d.close.nan THEN d.macd_prev ELSE d.macd_last
        sp == d.signal_prev
        sn == ema(sp, Num(mn), SignalSpan)
    IN  [m_prev |-> scale * mp, m_now |-> scale * mn,
         s_prev |-> scale * sp, s_now |-> sn,
         h_prev |-> scale * (mp - sp), h_now |-> scale * mn - sn]

crossed_up(a1_prev, a1_now, a2_prev, a2_now) ==
    a1_prev <= a2_prev /\ a1_now > a2_now

\* A proximity test that asks for the tolerance alone
OnTopWithinTolerance(i) ==
    /\ i.m_now > i.s_now
    /\ 100 * Abs(i.m_now - i.s_now) < Max(TolAbs, TolRelPct * Abs(i.s_now))

\* (m_now > s_now) and (m_prev <= s_prev or
\*     abs(m_now - s_now) < max(1e-9, 0.15*abs(s_now)))
on_top_small(i) ==
    /\ i.m_now > i.s_now
    /\ \/ i.m_prev <= i.s_prev
       \/ 100 * Abs(i.m_now - i.s_now) < Max(TolAbs, TolRelPct * Abs(i.s_now))

\* df["quoteAssetVolume"].tail(6).mean(): pandas skips NaN, and the mean of
\* no numbers is NaN.  The mean is num / den.
TailMean(vols) ==
    LET finite == SelectSeq(vols, LAMBDA x : ~x.nan)
        RECURSIVE Total(_)
        Total(s) == IF s = <<>> THEN 0 ELSE Head(s).v + Total(Tail(s))
    IN  [nan |-> finite = <<>>, num |-> Total(finite), den |-> Len(finite)]

\* if math.isnan(avg_qv6) or avg_qv6 < min_qv or last_close < min_price
GateRejects(d, mq, mp) ==
    LET avg == TailMean(d.quoteAssetVolume)
    IN  \/ avg.nan
        \/ avg.num < mq * avg.den
        \/ FLt(d.close, Num(mp))

\* (cut_up or on_top_small) and (m_now < 0) and (h_now > 0)
Qualifies(i) ==
    /\ crossed_up(i.m_prev, i.m_now, i.s_prev, i.s_now) \/ on_top_small(i)
    /\ i.m_now < 0
    /\ i.h_now > 0

\* 1.0*cut_up + 0.5*on_top_small + 0.7*(h_now > h_prev), in thousandths
Bonus(i) ==
    (IF crossed_up(i.m_prev, i.m_now, i.s_prev, i.s_now) THEN 1000 ELSE 0)
    + (IF on_top_small(i) THEN 500 ELSE 0)
    + (IF i.h_now > i.h_prev THEN 700 ELSE 0)

\* A score whose volume term is the bare quotient avg_qv6 / (10*min_qv)
ScoreUncapped(i, avg, mq) ==
    LET den == VolCap * mq * avg.den
    IN  IF den > 0 THEN RoundDiv(Bonus(i) * den + 1000 * avg.num, den)
        ELSE RoundDiv(0 - (Bonus(i) * den + 1000 * avg.num), 0 - den)

\* round(score, 3) in thousandths, for min_qv # 0.  The volume term is
\* min(1.0, avg_qv6 / (10*min_qv)); the quotient is not above 0 when min_qv
\* is negative.
Score(i, avg, mq) ==
    LET den == VolCap * mq * avg.den
    IN  IF den > 0
        THEN IF avg.num >= den THEN Bonus(i) + 1000
             ELSE RoundDiv(Bonus(i) * den + 1000 * avg.num, den)
        ELSE RoundDiv(0 - (Bonus(i) * den + 1000 * avg.num), 0 - den)

\* The record screen() returns on a match
MatchFields(d, i, avg, mq) ==
    [kind |-> "rec",
     close |-> IF d.close.nan THEN NaN ELSE Num(RoundDiv(d.close.v * CloseQuanta, 1)),
     avg_qv_6w |-> RoundDiv(avg.num * CentsPerVolUnit, avg.den),
     macd |-> RoundDiv(i.m_now, MicroUnits),
     signal |-> RoundDiv(i.s_now, MicroUnits),
     hist |-> RoundDiv(i.h_now, MicroUnits),
     score |-> Score(i, avg, mq)]

\* A history test that lets a series of MinBars - 1 bars through
TooShortOffByOne(d) == d.len < MinBars - 1

\* if len(df) < 35: return None
TooShort(d) == d.len < MinBars

screen(d, mq, mp) ==
    IF TooShort(d) THEN None
    ELSE IF GateRejects(d, mq, mp) THEN None
    ELSE LET i == macd(d)
             avg == TailMean(d.quoteAssetVolume)
         IN  IF Qualifies(i)
             THEN IF VolCap * mq = 0 THEN ZeroDivisionError
                  ELSE MatchFields(d, i, avg, mq)
             ELSE None

(***************************************************************************)
(* Inputs of screen()                                                      *)
(***************************************************************************)
IndRange == (0 - MaxInd) .. MaxInd
Lens == {MinBars - 1, MinBars}
Closes == {NaN, Num(4), Num(5)}
Vols == {3, 4, 40, 41}
NaNCounts == {0, 1, 6}
VolTails == {[j \in 1..6 |-> IF j <= k THEN NaN ELSE Num(v)] : k \in NaNCounts, v \in Vols}
MinVols == {0, DefaultMinVol}
\* --min-vol is any float: screen() is also given a negative minimum
ScreenMinVols == MinVols \cup {0 - DefaultMinVol}
MinPrices == {DefaultMinPrice}

SeriesInputs ==
    [len : Lens, close : Closes, quoteAssetVolume : VolTails,
     macd_prev : IndRange, macd_last : IndRange, signal_prev : IndRange]


(***************************************************************************)
(* binance_get(): GET with fallback over the mirrors                       *)
(***************************************************************************)
NumMirrors == 3        \* mirrors in the model (BINANCE_ENDPOINTS lists 7)

BINANCE_ENDPOINTS == [m \in 1..NumMirrors |-> m]
Mirrors == {BINANCE_ENDPOINTS[m] : m \in DOMAIN BINANCE_ENDPOINTS}

\* What SESSION.get() does at one mirror: it raises a network-level
\* requests.RequestException (timeout, connection reset), or it returns a
\* response with a status code.  A 2xx response carries a JSON body.
NetworkError == [exc |-> TRUE, status_code |-> 0]
Response(c) == [exc |-> FALSE, status_code |-> c]
StatusCodes == {200, 403, 404, 429, 451, 503}
Responses == {NetworkError} \cup {Response(c) : c \in StatusCodes}

NoErr == [type |-> "None", status_code |-> 0]
HTTPError(c) == [type |-> "HTTPError", status_code |-> c]
RequestException == [type |-> "RequestException", status_code |-> 0]

\* r.status_code in (451, 403, 429) or 500 <= r.status_code < 600
TryElsewhere(c) == c \in {451, 403, 429} \/ (500 <= c /\ c < 600)

\* r.raise_for_status(): HTTPError for 4xx and 5xx
RaisesForStatus(c) == 400 <= c /\ c < 600

\* The body of the try block for one response:
\*   "continue"  the explicit continue after a try-elsewhere status
\*   "raise"     an exception leaves the try block
\*   "return"    return r.json()
TryBlock(resp) ==
    IF resp.exc THEN [flow |-> "raise", err |-> RequestException]
    ELSE IF TryElsewhere(resp.status_code)
         THEN [flow |-> "continue", err |-> HTTPError(resp.status_code)]
    ELSE IF RaisesForStatus(resp.status_code)
         THEN [flow |-> "raise", err |-> HTTPError(resp.status_code)]
    ELSE [flow |-> "return", err |-> NoErr]

\* An except clause that lets the exceptions of raise_for_status() through
ExceptNetworkOnly(t) ==
    IF t.flow = "raise" /\ t.err = RequestException
    THEN [flow |-> "continue", err |-> t.err] ELSE t

\* except requests.RequestException as e: last_err = e; sleep; continue.
\* HTTPError is a RequestException, so every exception of the try block is
\* caught here.
ExceptRequestException(t) ==
    IF t.flow = "raise" THEN [flow |-> "continue", err |-> t.err] ELSE t

\* The orders random.shuffle can leave a list of the elements of S in
Shuffles(S) ==
    {p \in [1..Cardinality(S) -> S] : \A a, b \in DOMAIN p : p[a] = p[b] => a = b}

\* The call before its loop: endpoints = BINANCE_ENDPOINTS[:] shuffled
FetchStart(order) ==
    [at |-> "loop", endpoints |-> order, attempt |-> 0, last_err |-> NoErr,
     contacted |-> <<>>, slept |-> <<>>, raised |-> NoErr]

FetchIdle ==
    [at |-> "idle", endpoints |-> <<>>, attempt |-> 0, last_err |-> NoErr,
     contacted |-> <<>>, slept |-> <<>>, raised |-> NoErr]

\* An iteration that tries a failing mirror a second time before moving on
FetchAttemptTwice(f, srv) ==
    LET base == f.endpoints[f.attempt + 1]
        t == ExceptRequestException(TryBlock(srv[base]))
        g == [f EXCEPT !.contacted = Append(@, base)]
    IN  IF t.flow = "return"
        THEN [g EXCEPT !.at = "returned"]
        ELSE [g EXCEPT !.contacted = Append(@, base),
                       !.last_err = t.err,
                       !.slept = Append(@, f.attempt),
                       !.attempt = f.attempt + 1]

\* One iteration of  for attempt in range(len(endpoints))
FetchAttempt(f, srv) ==
    LET base == f.endpoints[f.attempt + 1]
        t == ExceptRequestException(TryBlock(srv[base]))
        g == [f EXCEPT !.contacted = Append(@, base)]
    IN  IF t.flow = "return"
        THEN [g EXCEPT !.at = "returned"]
        ELSE IF t.flow = "continue"
        THEN [g EXCEPT !.last_err = t.err,
                       !.slept = Append(@, f.attempt),
                       !.attempt = f.attempt + 1]
        ELSE [g EXCEPT !.at = "raised", !.raised = t.err]

\* After the loop: raise last_err, or RuntimeError when there is none
FetchExhausted(f) ==
    [f EXCEPT !.at = "raised",
              !.raised = IF f.last_err # NoErr THEN f.last_err
                         ELSE [type |-> "RuntimeError", status_code |-> 0]]

FetchStep(f, srv) ==
    IF f.attempt < Len(f.endpoints) THEN FetchAttempt(f, srv) ELSE FetchExhausted(f)

\* The whole call
RECURSIVE FetchRun(_, _)
FetchRun(f, srv) ==
    IF f.at = "loop" THEN FetchRun(FetchStep(f, srv), srv) ELSE f

binance_get(order, srv) == FetchRun(FetchStart(order), srv)


(***************************************************************************)
(* get_all_usdt_spot_symbols(): the universe                               *)
(*                                                                         *)
(* An exchangeInfo entry carries the fields the filter reads.  Its name    *)
(* is a sequence of characters; its symbol is the rank of the name among   *)
(* the names of the model in Python's string order, and stands for the     *)
(* name wherever main() holds or compares symbols.                         *)
(***************************************************************************)
MaxSymbols == 3        \* plain tradable names in the model

Letters == <<"A", "B", "C", "D", "E", "F", "G", "H", "I", "J", "K">>
USDT == <<"U", "S", "D", "T">>
\* ("UPUSDT", "DOWNUSDT", "BULLUSDT", "BEARUSDT")
LeveragedPatterns ==
    {<<"U", "P">> \o USDT, <<"D", "O", "W", "N">> \o USDT,
     <<"B", "U", "L", "L">> \o USDT, <<"B", "E", "A", "R">> \o USDT}

\* x in name
Contains(name, x) ==
    \E k \in 1..(Len(name) - Len(x) + 1) : SubSeq(name, k, k + Len(x) - 1) = x

\* any(x in name for x in (...))
HasLeveragedPattern(name) == \E x \in LeveragedPatterns : Contains(name, x)

Entry(n, name, st, q, spot) ==
    [symbol |-> n, name |-> name, status |-> st, quoteAsset |-> q,
     isSpotTradingAllowed |-> spot]

\* AUSDT, BUSDT, ...: plain names; then, in string order after them, the
\* leveraged tokens FUPUSDT and GBEARUSDT, the halted HUSDT, IUPUSDTUSDT
\* (base asset IUPUSDT), JBTC quoted in BTC and KUSDT closed to spot trading
EntryPool ==
    {Entry(n, <<Letters[n]>> \o USDT, "TRADING", "USDT", TRUE) : n \in 1..MaxSymbols}
    \cup {Entry(MaxSymbols + 1, <<"F", "U", "P">> \o USDT, "TRADING", "USDT", TRUE),
          Entry(MaxSymbols + 2, <<"G", "B", "E", "A", "R">> \o USDT, "TRADING", "USDT", TRUE),
          Entry(MaxSymbols + 3, <<"H">> \o USDT, "BREAK", "USDT", TRUE),
          Entry(MaxSymbols + 4, <<"I", "U", "P">> \o USDT \o USDT, "TRADING", "USDT", TRUE),
          Entry(MaxSymbols + 5, <<"J", "B", "T", "C">>, "TRADING", "BTC", TRUE),
          Entry(MaxSymbols + 6, <<"K">> \o USDT, "TRADING", "USDT", FALSE)}

Snapshots == SUBSET EntryPool

Included(e) ==
    /\ e.status = "TRADING" /\ e.quoteAsset = "USDT" /\ e.isSpotTradingAllowed
    /\ ~HasLeveragedPattern(e.name)

\* sorted(syms)
RECURSIVE sorted(_)
sorted(S) ==
    IF S = {} THEN <<>>
    ELSE LET least == CHOOSE x \in S : \A y \in S : x <= y
         IN  <<least>> \o sorted(S \ {least})

\* a loader that answers a failed fetch with the empty universe
UniverseOrEmpty(r, data) ==
    IF r.at = "raised" THEN [flow |-> "return", syms |-> <<>>]
    ELSE [flow |-> "return",
          syms |-> sorted({e.symbol : e \in {x \in data : Included(x)}})]

\* r is the finished binance_get("/api/v3/exchangeInfo") call, data its body
get_all_usdt_spot_symbols(r, data) ==
    IF r.at = "raised" THEN [flow |-> "raise", syms |-> <<>>]
    ELSE [flow |-> "return",
          syms |-> sorted({e.symbol : e \in {x \in data : Included(x)}})]

(***************************************************************************)
(* The scan loop of main()                                                 *)
(***************************************************************************)
\* r is the finished binance_get("/api/v3/klines") call, body the series it
\* returned (NoDf for an empty array: "if not arr: return pd.DataFrame()")
get_klines_weekly(r, body) ==
    IF r.at = "raised" THEN [flow |-> "raise", df |-> NoDf]
    ELSE [flow |-> "return", df |-> body]

\* "if rec:" appends every result, also None
KeepAll(r) == TRUE

\* if rec:
Keep(r) == r.kind = "rec"

\* The try block of one iteration
TryIteration(sym, r, body, res, mq, mp) ==
    LET k == get_klines_weekly(r, body)
    IN  IF k.flow = "raise" THEN [flow |-> "raise", results |-> res]
        ELSE IF k.df.len = 0 THEN [flow |-> "continue", results |-> res]
        ELSE LET rc == screen(k.df, mq, mp)
             IN  IF rc.kind = "raise" THEN [flow |-> "raise", results |-> res]
                 ELSE IF Keep(rc)
                      THEN [flow |-> "next",   \* {"symbol": sym, **rec}
                            results |-> Append(res, [symbol |-> sym] @@ rc)]
                 ELSE [flow |-> "next", results |-> res]

\* A handler that lets the exception through
LoopReraise(t) == t

\* except Exception as e: print(...)
LoopExcept(t) == IF t.flow = "raise" THEN [t EXCEPT !.flow = "next"] ELSE t

\* x sorts before y under key (score, avg_qv_6w), reverse=True
Before(x, y) ==
    \/ x.score > y.score
    \/ x.score = y.score /\ x.avg_qv_6w > y.avg_qv_6w

\* a sort on the score alone
RECURSIVE SortByScore(_)
SortByScore(q) ==
    IF q = <<>> THEN <<>>
    ELSE LET x == q[Len(q)]
             front == SortByScore(SubSeq(q, 1, Len(q) - 1))
             ahead == SelectSeq(front, LAMBDA y : ~(x.score > y.score))
             behind == SelectSeq(front, LAMBDA y : x.score > y.score)
         IN  ahead \o <<x>> \o behind

\* results.sort(key=lambda x: (x["score"], x["avg_qv_6w"]), reverse=True):
\* a stable sort, records with equal keys keep their order
RECURSIVE SortResults(_)
SortResults(q) ==
    IF q = <<>> THEN <<>>
    ELSE LET x == q[Len(q)]
             front == SortResults(SubSeq(q, 1, Len(q) - 1))
             ahead == SelectSeq(front, LAMBDA y : ~Before(x, y))
             behind == SelectSeq(front, LAMBDA y : Before(x, y))
         IN  ahead \o <<x>> \o behind

\* a branch that always takes the file path
AlwaysWrite(res) == TRUE

\* if results:
HasMatches(res) == res # <<>>

(***************************************************************************)
(* Telegram                                                                *)
(***************************************************************************)
\* A handler that lets the exception through
TelegramReraise(t) == t

\* except Exception as e: print("Telegram error:", e)
TelegramExcept(t) == IF t.flow = "raise" THEN [t EXCEPT !.flow = "return"] ELSE t

\* creds: TELEGRAM_BOT_TOKEN and TELEGRAM_CHAT_ID are both set
\* open_ok: open(file_path, "rb") succeeds;  post_ok: the POST succeeds
send_telegram_file(creds, open_ok, post_ok) ==
    IF ~creds THEN [flow |-> "return", requested |-> FALSE]
    ELSE TelegramExcept(
            IF ~open_ok THEN [flow |-> "raise", requested |-> FALSE]
            ELSE IF ~post_ok THEN [flow |-> "raise", requested |-> TRUE]
            ELSE [flow |-> "return", requested |-> TRUE])

send_telegram_text(creds, get_ok) ==
    IF ~creds THEN [flow |-> "return", requested |-> FALSE]
    ELSE TelegramExcept(
            IF ~get_ok THEN [flow |-> "raise", requested |-> TRUE]
            ELSE [flow |-> "return", requested |-> TRUE])

(***************************************************************************)
(* app.run()                                                               *)
(***************************************************************************)
NoResponse == [status |-> "none", http |-> 0, keys |-> {}]

\* subprocess.run(..., check=True) raises CalledProcessError on a non-zero
\* exit status; the except clause answers 500
RunResponse(code) ==
    IF code = 0
    THEN [status |-> "ok", http |-> 200, keys |-> {"status", "ran_at_utc"}]
    ELSE [status |-> "error", http |-> 500, keys |-> {"status", "message"}]

(***************************************************************************)
(* Spec: one scan, started by GET /run or from the command line            *)
(***************************************************************************)
\* What the mirrors answer to one request during a scan: all of them serve
\* it, the first of the list is down, or all of them are down
ScanServed ==
    {[m \in Mirrors |-> IF m \in down THEN Response(503) ELSE Response(200)] :
        down \in {{}, {BINANCE_ENDPOINTS[1]}, Mirrors}}

\* Series the data source serves during a scan: one that does not qualify
\* and three that qualify (two of them with the same score)
ScanSeries ==
    LET S(n, v, ml) ==
            [len |-> n, close |-> Num(DefaultMinPrice),
             quoteAssetVolume |-> [j \in 1..6 |-> Num(v)],
             macd_prev |-> 0 - 6, macd_last |-> ml, signal_prev |-> 0 - 6]
    IN  {S(MinBars, 40, 1), S(MinBars, 4, 0 - 5),
         S(MinBars, 40, 0 - 5), S(MinBars, 41, 0 - 5)}

KlineBodies == {NoDf} \cup ScanSeries

\* two series that match, with different scores
TwinBodies ==
    {b \in ScanSeries : /\ b.macd_last < 0
                         /\ b.quoteAssetVolume[1].v \in {DefaultMinVol, VolCap * DefaultMinVol}}

NoFile == [exists |-> FALSE, rows |-> <<>>, writes |-> 0]
StaleFile ==
    [exists |-> TRUE, writes |-> 0,
     rows |-> <<[symbol |-> 1] @@
                screen(CHOOSE d \in ScanSeries :
                           screen(d, DefaultMinVol, DefaultMinPrice).kind = "rec",
                       DefaultMinVol, DefaultMinPrice)>>]

scanVars == <<launch, pc, load, syms, results, trace, out_file, file0,
              telegram, exit_code, response>>

\* The variables of the other specifications, at rest
OthersIdle ==
    /\ info = {}
    /\ universe = Pending
    /\ market = <<>>
    /\ twin = <<>>
    /\ procs = <<>>

ScanIdle ==
    /\ launch = "none"
    /\ pc = "idle"
    /\ load = "none"
    /\ syms = <<>>
    /\ results = <<>>
    /\ trace = <<>>
    /\ file0 = out_file
    /\ telegram = <<>>
    /\ exit_code = 0 - 1
    /\ response = NoResponse

Init ==
    /\ df = NoDf
    /\ rec = Pending
    /\ min_qv = DefaultMinVol
    /\ min_price = DefaultMinPrice
    /\ served = [m \in Mirrors |-> Response(200)]
    /\ fetch = FetchIdle
    /\ out_file \in {NoFile, StaleFile}
    /\ ScanIdle
    /\ OthersIdle

\* GET /run: subprocess.run(["python3", "scanner.py"]), the defaults apply
Run ==
    /\ pc = "idle"
    /\ launch' = "http"
    /\ pc' = "load"
    /\ UNCHANGED <<otherVars, df, rec, min_qv, min_price, served, fetch, load, syms,
                   results, trace, out_file, file0, telegram, exit_code, response>>

\* python3 scanner.py --min-vol X
CommandLine ==
    /\ pc = "idle"
    /\ launch' = "cli"
    /\ pc' = "load"
    /\ min_qv' \in MinVols
    /\ UNCHANGED <<otherVars, df, rec, min_price, served, fetch, load, syms,
                   results, trace, out_file, file0, telegram, exit_code, response>>

\* syms = get_all_usdt_spot_symbols(); an exception ends the process
LoadSymbols ==
    /\ pc = "load"
    /\ \E order \in Shuffles(Mirrors), srv \in ScanServed,
          data \in Snapshots :
          LET r == binance_get(order, srv)
              u == get_all_usdt_spot_symbols(r, data)
          IN  /\ load' = r.at
              /\ IF u.flow = "raise"
                 THEN pc' = "exit" /\ exit_code' = 1 /\ syms' = syms
                 ELSE pc' = "loop" /\ exit_code' = exit_code /\ syms' = u.syms
    /\ UNCHANGED <<otherVars, df, rec, min_qv, min_price, served, fetch, launch,
                   results, trace, out_file, file0, telegram, response>>

\* One iteration of  for i, sym in enumerate(syms, 1)
ScanSymbol ==
    /\ pc = "loop"
    /\ Len(trace) < Len(syms)
    /\ \E order \in Shuffles(Mirrors), srv \in ScanServed,
          body \in KlineBodies :
          LET sym == syms[Len(trace) + 1]
              r == binance_get(order, srv)
              t == LoopExcept(TryIteration(sym, r, body, results, min_qv, min_price))
          IN  /\ trace' = Append(trace, [sym |-> sym, fetch |-> r.at,
                                         df |-> get_klines_weekly(r, body).df])
              /\ results' = t.results
              /\ IF t.flow = "raise"
                 THEN pc' = "exit" /\ exit_code' = 1
                 ELSE pc' = pc /\ exit_code' = exit_code
    /\ UNCHANGED <<otherVars, df, rec, min_qv, min_price, served, fetch, launch, load,
                   syms, out_file, file0, telegram, response>>

\* The loop is over: results.sort(...)
Sort ==
    /\ pc = "loop"
    /\ Len(trace) = Len(syms)
    /\ results' = SortResults(results)
    /\ pc' = "report"
    /\ UNCHANGED <<otherVars, df, rec, min_qv, min_price, served, fetch, launch, load,
                   syms, trace, out_file, file0, telegram, exit_code, response>>

\* if results: with open(args.out, "w") ...: writeheader, writerows
WriteCsv ==
    /\ pc = "report"
    /\ HasMatches(results)
    /\ out_file' = [exists |-> TRUE, rows |-> results, writes |-> out_file.writes + 1]
    /\ pc' = "send_file"
    /\ UNCHANGED <<otherVars, df, rec, min_qv, min_price, served, fetch, launch, load,
                   syms, results, trace, file0, telegram, exit_code, response>>

\* send_telegram_file(args.out, ...), then main() returns
SendFile ==
    /\ pc = "send_file"
    /\ \E creds \in BOOLEAN, open_ok \in BOOLEAN, post_ok \in BOOLEAN :
          LET t == send_telegram_file(creds, open_ok, post_ok)
          IN  /\ telegram' = Append(telegram,
                    [op |-> "sendDocument", creds |-> creds,
                     failed |-> creds /\ (~open_ok \/ ~post_ok),
                     requested |-> t.requested, flow |-> t.flow,
                     document |-> out_file])
              /\ exit_code' = IF t.flow = "raise" THEN 1 ELSE 0
    /\ pc' = "exit"
    /\ UNCHANGED <<otherVars, df, rec, min_qv, min_price, served, fetch, launch, load,
                   syms, results, trace, out_file, file0, response>>

\* else: send_telegram_text(...), then main() returns
SendText ==
    /\ pc = "report"
    /\ ~HasMatches(results)
    /\ \E creds \in BOOLEAN, get_ok \in BOOLEAN :
          LET t == send_telegram_text(creds, get_ok)
          IN  /\ telegram' = Append(telegram,
                    [op |-> "sendText", creds |-> creds,
                     failed |-> creds /\ ~get_ok,
                     requested |-> t.requested, flow |-> t.flow,
                     document |-> NoFile])
              /\ exit_code' = IF t.flow = "raise" THEN 1 ELSE 0
    /\ pc' = "exit"
    /\ UNCHANGED <<otherVars, df, rec, min_qv, min_price, served, fetch, launch, load,
                   syms, results, trace, out_file, file0, response>>

\* app.run() answers once the scanner process has ended
RunReturn ==
    /\ pc = "exit"
    /\ launch = "http"
    /\ response' = RunResponse(exit_code)
    /\ pc' = "responded"
    /\ UNCHANGED <<otherVars, df, rec, min_qv, min_price, served, fetch, launch, load,
                   syms, results, trace, out_file, file0, telegram, exit_code>>

Next ==
    \/ Run
    \/ CommandLine
    \/ LoadSymbols
    \/ ScanSymbol
    \/ Sort
    \/ WriteCsv
    \/ SendFile
    \/ SendText
    \/ RunReturn

(***************************************************************************)
(* SpecScreen: screen() applied once to every bounded input                *)
(***************************************************************************)
vars == <<df, min_qv, min_price, rec, served, fetch, launch, pc, load, syms,
          results, trace, out_file, file0, telegram, exit_code, response,
          otherVars>>

Spec == Init /\ [][Next]_vars
screenVars == <<df, min_qv, min_price, rec>>
fetchVars == <<served, fetch>>

InitScreen ==
    /\ df \in SeriesInputs
    /\ min_qv \in ScreenMinVols
    /\ min_price \in MinPrices
    /\ rec = Pending
    /\ served = [m \in Mirrors |-> Response(200)]
    /\ fetch = FetchIdle
    /\ out_file = NoFile
    /\ ScanIdle
    /\ OthersIdle

\* rec = screen(df, args.min_vol, args.min_price)
ScreenCall ==
    /\ rec = Pending
    /\ rec' = screen(df, min_qv, min_price)
    /\ UNCHANGED <<otherVars, df, min_qv, min_price, fetchVars, scanVars>>

NextScreen == ScreenCall

SpecScreen == InitScreen /\ [][NextScreen]_vars

(***************************************************************************)
(* SpecFetch: one call of binance_get(), one loop iteration per step       *)
(***************************************************************************)
InitFetch ==
    /\ df = NoDf
    /\ min_qv = 0
    /\ min_price = 0
    /\ rec = Pending
    /\ served \in [Mirrors -> Responses]
    /\ fetch = FetchIdle
    /\ out_file = NoFile
    /\ ScanIdle
    /\ OthersIdle

\* endpoints = BINANCE_ENDPOINTS[:]; random.shuffle(endpoints)
Shuffle ==
    /\ fetch.at = "idle"
    /\ \E order \in Shuffles(Mirrors) : fetch' = FetchStart(order)
    /\ UNCHANGED <<otherVars, screenVars, served, scanVars>>

Attempt ==
    /\ fetch.at = "loop"
    /\ fetch.attempt < Len(fetch.endpoints)
    /\ fetch' = FetchAttempt(fetch, served)
    /\ UNCHANGED <<otherVars, screenVars, served, scanVars>>

Exhausted ==
    /\ fetch.at = "loop"
    /\ fetch.attempt >= Len(fetch.endpoints)
    /\ fetch' = FetchExhausted(fetch)
    /\ UNCHANGED <<otherVars, screenVars, served, scanVars>>

NextFetch == Shuffle \/ Attempt \/ Exhausted

SpecFetch == InitFetch /\ [][NextFetch]_vars

(***************************************************************************)
(* SpecOverlap: requests to /run served at once.  app.run() starts one     *)
(* scanner process per request and holds no lock (the server of app.py     *)
(* handles each request in a thread of its own); the processes share       *)
(* args.out.  A process takes its file operations one at a time: open for  *)
(* writing (which truncates), write and close, open for reading and send.  *)
(***************************************************************************)
NumRequests == 2

Requests == 1..NumRequests

\* What a scan of a one-instrument universe can hold after the sort
OverlapResults ==
    {<<>>} \cup {SortResults(TryIteration(1, [at |-> "returned"], b, <<>>,
                                          DefaultMinVol, DefaultMinPrice).results) :
                    b \in TwinBodies}

ProcIdle == [pc |-> "idle", rows |-> <<>>, sent |-> FALSE, document |-> <<>>]

InitOverlap ==
    /\ df = NoDf
    /\ rec = Pending
    /\ min_qv = DefaultMinVol
    /\ min_price = DefaultMinPrice
    /\ served = [m \in Mirrors |-> Response(200)]
    /\ fetch = FetchIdle
    /\ out_file \in {NoFile, StaleFile}
    /\ ScanIdle
    /\ info = {}
    /\ universe = Pending
    /\ market = <<>>
    /\ twin = <<>>
    /\ procs = [p \in Requests |-> ProcIdle]

overlapFrame == <<info, universe, market, twin, screenVars, fetchVars,
                  launch, pc, load, syms, results, trace, file0, telegram,
                  exit_code, response>>

\* subprocess.run(["python3", "scanner.py"], check=True): the scan up to
\* and including results.sort(...)
ProcScan(p) ==
    /\ procs[p].pc = "idle"
    /\ \E rows \in OverlapResults :
          procs' = [procs EXCEPT ![p].pc = "report", ![p].rows = rows]
    /\ UNCHANGED <<out_file, overlapFrame>>

\* if results: open(args.out, "w", ...)
ProcOpen(p) ==
    /\ procs[p].pc = "report"
    /\ HasMatches(procs[p].rows)
    /\ out_file' = [exists |-> TRUE, rows |-> <<>>, writes |-> out_file.writes]
    /\ procs' = [procs EXCEPT ![p].pc = "writing"]
    /\ UNCHANGED overlapFrame

\* w.writeheader(); w.writerows(results); the file is closed
ProcWriteClose(p) ==
    /\ procs[p].pc = "writing"
    /\ out_file' = [exists |-> TRUE, rows |-> procs[p].rows,
                    writes |-> out_file.writes + 1]
    /\ procs' = [procs EXCEPT ![p].pc = "send_file"]
    /\ UNCHANGED overlapFrame

\* send_telegram_file(args.out, ...): open(file_path, "rb") and the post
ProcSendFile(p) ==
    /\ procs[p].pc = "send_file"
    /\ procs' = [procs EXCEPT ![p].pc = "exit", ![p].sent = TRUE,
                              ![p].document = out_file.rows]
    /\ UNCHANGED <<out_file, overlapFrame>>

\* else: send_telegram_text(...)
ProcSendText(p) ==
    /\ procs[p].pc = "report"
    /\ ~HasMatches(procs[p].rows)
    /\ procs' = [procs EXCEPT ![p].pc = "exit"]
    /\ UNCHANGED <<out_file, overlapFrame>>

\* return jsonify({"status": "ok", ...})
ProcRespond(p) ==
    /\ procs[p].pc = "exit"
    /\ procs' = [procs EXCEPT ![p].pc = "responded"]
    /\ UNCHANGED <<out_file, overlapFrame>>

NextOverlap ==
    \E p \in Requests :
        \/ ProcScan(p)
        \/ ProcOpen(p)
        \/ ProcWriteClose(p)
        \/ ProcSendFile(p)
        \/ ProcSendText(p)
        \/ ProcRespond(p)

SpecOverlap == InitOverlap /\ [][NextOverlap]_vars

(***************************************************************************)
(* SpecTerm: one direct call of binance_get() or one scan, every step of   *)
(* which is eventually taken: a network attempt and a sleep return, by     *)
(* response, error or timeout (timeout=15, 20, 30 and the cap of 8.0 in    *)
(* _sleep_backoff).  Starting a call or a scan is left to the environment. *)
(***************************************************************************)
TermResponses == {NetworkError, Response(200), Response(404), Response(503)}

\* binance_get() is about to be called on its own
InitCall ==
    /\ df = NoDf
    /\ rec = Pending
    /\ min_qv = DefaultMinVol
    /\ min_price = DefaultMinPrice
    /\ served \in [Mirrors -> TermResponses]
    /\ fetch = FetchIdle
    /\ launch = "call"
    /\ pc = "idle"
    /\ load = "none"
    /\ syms = <<>>
    /\ results = <<>>
    /\ trace = <<>>
    /\ out_file = NoFile
    /\ file0 = out_file
    /\ telegram = <<>>
    /\ exit_code = 0 - 1
    /\ response = NoResponse
    /\ OthersIdle

InitTerm == Init \/ InitCall

TermStart ==
    \/ launch = "call" /\ Shuffle
    \/ launch # "call" /\ (Run \/ CommandLine)

TermStep ==
    \/ launch = "call" /\ (Attempt \/ Exhausted)
    \/ launch # "call" /\ (LoadSymbols \/ ScanSymbol \/ Sort \/ WriteCsv
                              \/ SendFile \/ SendText \/ RunReturn)

NextTerm == TermStart \/ TermStep

SpecTerm == InitTerm /\ [][NextTerm]_vars /\ WF_vars(TermStep)

(***************************************************************************)
(* SpecUniverse: get_all_usdt_spot_symbols() on every snapshot             *)
(***************************************************************************)
InitUniverse ==
    /\ df = NoDf
    /\ rec = Pending
    /\ min_qv = DefaultMinVol
    /\ min_price = DefaultMinPrice
    /\ served \in ScanServed
    /\ fetch = FetchIdle
    /\ out_file = NoFile
    /\ ScanIdle
    /\ info \in Snapshots
    /\ universe = Pending
    /\ market = <<>>
    /\ twin = <<>>
    /\ procs = <<>>

\* get_all_usdt_spot_symbols()
LoadUniverse ==
    /\ universe = Pending
    /\ \E order \in Shuffles(Mirrors) :
          LET r == binance_get(order, served)
              u == get_all_usdt_spot_symbols(r, info)
          IN  universe' = [kind |-> u.flow, syms |-> u.syms]
    /\ UNCHANGED <<info, market, twin, procs, screenVars, fetchVars, scanVars>>

NextUniverse == LoadUniverse

SpecUniverse == InitUniverse /\ [][NextUniverse]_vars

(***************************************************************************)
(* SpecTwin: main() run twice, one scan after the other, over one market.  *)
(* The market fixes, per request, what every mirror answers; a mirror that *)
(* answers 200 serves the body of the market.  Every call of each scan     *)
(* shuffles the mirrors anew.                                              *)
(***************************************************************************)
\* every mirror up; the first answers 404; the first answers 503; all down
TwinServed ==
    {[m \in Mirrors |-> Response(200)],
     [m \in Mirrors |-> IF m = BINANCE_ENDPOINTS[1] THEN Response(404) ELSE Response(200)],
     [m \in Mirrors |-> IF m = BINANCE_ENDPOINTS[1] THEN Response(503) ELSE Response(200)],
     [m \in Mirrors |-> Response(503)]}

\* For a klines request some mirror fails: which mirror a call meets first
\* is then up to the shuffle
TwinKlinesServed == TwinServed \ {[m \in Mirrors |-> Response(200)]}

Markets ==
    [info_srv : TwinServed,
     klines : [1..MaxSymbols -> [srv : TwinKlinesServed, body : TwinBodies]]]

TwinStart == [done |-> <<>>, pc |-> "load", syms |-> <<>>, k |-> 0, results |-> <<>>]

InitTwin ==
    /\ df = NoDf
    /\ rec = Pending
    /\ min_qv = DefaultMinVol
    /\ min_price = DefaultMinPrice
    /\ served = [m \in Mirrors |-> Response(200)]
    /\ fetch = FetchIdle
    /\ out_file = NoFile
    /\ ScanIdle
    /\ info = EntryPool
    /\ universe = Pending
    /\ market \in Markets
    /\ twin = TwinStart
    /\ procs = <<>>

\* syms = get_all_usdt_spot_symbols(); an exception ends the scan
TwinLoad ==
    /\ twin.pc = "load"
    /\ Len(twin.done) < 2
    /\ \E order \in Shuffles(Mirrors) :
          LET r == binance_get(order, market.info_srv)
              u == get_all_usdt_spot_symbols(r, info)
          IN  IF u.flow = "raise"
              THEN twin' = [twin EXCEPT
                              !.done = Append(@, [aborted |-> TRUE, rows |-> <<>>])]
              ELSE twin' = [twin EXCEPT !.pc = "loop", !.syms = u.syms,
                                        !.k = 0, !.results = <<>>]
    /\ UNCHANGED <<info, universe, market, procs, screenVars, fetchVars, scanVars>>

\* one iteration of "for i, sym in enumerate(syms, 1)"
TwinSymbol ==
    /\ twin.pc = "loop"
    /\ twin.k < Len(twin.syms)
    /\ \E order \in Shuffles(Mirrors) :
          LET sym == twin.syms[twin.k + 1]
              r == binance_get(order, market.klines[sym].srv)
              t == LoopExcept(TryIteration(sym, r, market.klines[sym].body,
                                           twin.results, min_qv, min_price))
          IN  IF t.flow = "raise"
              THEN twin' = [twin EXCEPT
                              !.done = Append(@, [aborted |-> TRUE, rows |-> <<>>]),
                              !.pc = "load"]
              ELSE twin' = [twin EXCEPT !.results = t.results, !.k = @ + 1]
    /\ UNCHANGED <<info, universe, market, procs, screenVars, fetchVars, scanVars>>

\* results.sort(...): the Scan Result of this scan
TwinSort ==
    /\ twin.pc = "loop"
    /\ twin.k = Len(twin.syms)
    /\ twin' = [twin EXCEPT
                  !.done = Append(@, [aborted |-> FALSE,
                                      rows |-> SortResults(twin.results)]),
                  !.pc = "load"]
    /\ UNCHANGED <<info, universe, market, procs, screenVars, fetchVars, scanVars>>

NextTwin == TwinLoad \/ TwinSymbol \/ TwinSort

SpecTwin == InitTwin /\ [][NextTwin]_vars

(***************************************************************************)
(* Claims about screen()  (SpecScreen)                                     *)
(***************************************************************************)
\* The qualification rule in the words of the specification
RuleCrossedUp(i) == i.m_prev <= i.s_prev /\ i.m_now > i.s_now
RuleNearAbove(i) ==
    /\ i.m_now > i.s_now
    /\ \/ i.m_prev <= i.s_prev
       \/ 100 * Abs(i.m_now - i.s_now) < Max(TolAbs, TolRelPct * Abs(i.s_now))
RuleHolds(i) ==
    i.m_now < 0 /\ i.h_now > 0 /\ (RuleCrossedUp(i) \/ RuleNearAbove(i))

Evaluated == rec # Pending
PassesGate == df.len >= MinBars /\ ~GateRejects(df, min_qv, min_price)

\* C9: for every series of at least 35 bars that passes the volume/price
\* gate, evaluate returns a match if and only if macdNow < 0 and histNow > 0
\* and (crossedUp or nearAbove).
C9_QualificationRule ==
    (Evaluated /\ PassesGate) => (rec.kind = "rec" <=> RuleHolds(macd(df)))

\* The rule as the code computes it: it holds whenever min_qv is positive;
\* with min_qv = 0 a qualifying series raises ZeroDivisionError instead.
C9_RuleForPositiveMinVol ==
    (Evaluated /\ PassesGate) =>
        /\ min_qv > 0 => (rec.kind = "rec" <=> RuleHolds(macd(df)))
        /\ min_qv = 0 => (rec.kind = "raise" <=> RuleHolds(macd(df)))
        /\ rec.kind # "rec" /\ rec.kind # "raise" => rec = None

\* C10: every Match Record, in its reported (rounded) fields, has average
\* 6-bar quote volume >= the minimum, last close >= the minimum price,
\* MACD < 0 and histogram > 0.
C10_MatchRecordInvariant ==
    (Evaluated /\ rec.kind = "rec") =>
        /\ rec.avg_qv_6w >= min_qv * CentsPerVolUnit
        /\ ~rec.close.nan /\ rec.close.v >= min_price * CloseQuanta
        /\ rec.macd < 0
        /\ rec.hist > 0

\* C10 on the values before rounding, and leaving the last close aside
C10_UnroundedGate ==
    (Evaluated /\ rec.kind = "rec") =>
        LET avg == TailMean(df.quoteAssetVolume)
            i == macd(df)
        IN  /\ ~avg.nan /\ avg.num >= min_qv * avg.den
            /\ ~FLt(df.close, Num(min_price))
            /\ i.m_now < 0 /\ i.h_now > 0
            /\ rec.macd <= 0 /\ rec.hist >= 0

(***************************************************************************)
(* Claims about binance_get()  (SpecFetch)                                 *)
(***************************************************************************)
Is2xx(resp) == ~resp.exc /\ 200 <= resp.status_code /\ resp.status_code < 300
IsOther4xx(resp) ==
    /\ ~resp.exc
    /\ 400 <= resp.status_code /\ resp.status_code < 500
    /\ resp.status_code \notin {403, 429, 451}

NoRepeat(q) == \A a, b \in DOMAIN q : q[a] = q[b] => a = b
Range(q) == {q[a] : a \in DOMAIN q}

\* C3: the call returns at the first mirror that answers 2xx without
\* contacting any further mirror; it fails only after every mirror has been
\* attempted; no mirror is attempted twice; when all N mirrors answer 503
\* the call fails after exactly N attempts.
C3_MirrorExhaustion ==
    LET c == fetch.contacted
    IN  /\ NoRepeat(c)
        /\ \A k \in DOMAIN c : c[k] = fetch.endpoints[k]
        /\ \A k \in DOMAIN c :
              Is2xx(served[c[k]]) => (k = Len(c) /\ fetch.at = "returned")
        /\ fetch.at = "returned" => Is2xx(served[c[Len(c)]])
        /\ fetch.at = "raised" => Range(c) = Mirrors
        /\ (fetch.at = "raised" /\ \A m \in Mirrors : served[m] = Response(503))
              => Len(c) = NumMirrors

\* A call in which every mirror answered 503 has failed after N attempts
C3_Witness ==
    /\ fetch.at = "raised"
    /\ \A m \in Mirrors : served[m] = Response(503)
    /\ Len(fetch.contacted) = NumMirrors
    /\ fetch.raised = HTTPError(503)

\* C4: when a mirror answers with a 4xx status other than 403, 429 or 451,
\* the call surfaces that failure without attempting any further mirror.
C4_ClientErrorSurfaces ==
    LET c == fetch.contacted
    IN  \A k \in DOMAIN c :
            IsOther4xx(served[c[k]]) =>
                /\ k = Len(c)
                /\ fetch.at = "raised"
                /\ fetch.raised = HTTPError(served[c[k]].status_code)

(***************************************************************************)
(* Claims about main() and app.run()  (Spec)                               *)
(***************************************************************************)
Loaded == load = "returned"
Finished == pc \in {"exit", "responded"}
AfterLoop == pc \in {"report", "send_file", "exit", "responded"}

ScreenOf(k) == screen(trace[k].df, min_qv, min_price)
FetchFailed(k) == trace[k].fetch = "raised"
Matched(k) ==
    trace[k].fetch = "returned" /\ trace[k].df.len > 0 /\ ScreenOf(k).kind = "rec"
ResultSymbols == {results[j].symbol : j \in DOMAIN results}

\* C1: once the universe is loaded, the scan attempts each instrument
\* exactly once, in the sorted universe order, whatever the outcome of each
\* instrument, and always reaches the reporting step: a failure on one
\* instrument never keeps a later one from being fetched and evaluated.
C1_FailureIsolation ==
    /\ Len(trace) <= Len(syms)
    /\ \A k \in DOMAIN trace : trace[k].sym = syms[k]
    /\ \A a, b \in DOMAIN syms : a < b => syms[a] < syms[b]
    /\ (Loaded /\ pc # "loop") => Len(trace) = Len(syms)
    /\ (Loaded /\ Finished) => (telegram # <<>> /\ exit_code = 0)
    /\ (Loaded /\ ~Finished) => ENABLED Next

\* A finished scan in which the fetch of one instrument raised and a later
\* instrument was fetched, matched and reported
C1_Witness ==
    /\ Loaded /\ Finished /\ telegram # <<>>
    /\ \E a, b \in DOMAIN trace :
          /\ a < b
          /\ FetchFailed(a)
          /\ Matched(b) /\ trace[b].sym \in ResultSymbols

\* A finished scan in which the evaluation of one instrument raised and a
\* later instrument was fetched and evaluated
C1_WitnessEvaluationRaises ==
    /\ Loaded /\ Finished /\ telegram # <<>>
    /\ \E a, b \in DOMAIN trace :
          /\ a < b
          /\ ~FetchFailed(a) /\ trace[a].df.len > 0 /\ ScreenOf(a).kind = "raise"
          /\ ~FetchFailed(b) /\ trace[b].df.len > 0

\* C2: the match list holds exactly one record for each instrument whose
\* fetch succeeded with a non-empty series and whose evaluation returned a
\* match, and no record for any other instrument.
C2_ResultContents ==
    LET matched == {k \in DOMAIN trace : Matched(k)}
    IN  /\ ResultSymbols = {trace[k].sym : k \in matched}
        /\ Len(results) = Cardinality(matched)
        /\ \A j \in DOMAIN results : \E k \in matched :
              results[j] = [symbol |-> trace[k].sym] @@ ScreenOf(k)

\* A finished scan of three instruments: the first series is empty, the
\* second fetch fails, the third matches and is the only record
C2_Witness ==
    /\ Finished /\ Len(trace) = 3
    /\ trace[1].fetch = "returned" /\ trace[1].df.len = 0
    /\ FetchFailed(2)
    /\ Matched(3)
    /\ Len(results) = 1 /\ results[1].symbol = syms[3]
    /\ out_file.rows = results

\* C5: when loading the universe fails, no series is fetched, no output
\* file is written, no notification is sent, the process ends with an
\* error and the trigger answers with an error status.
C5_UniverseFailureFatal ==
    load = "raised" =>
        /\ trace = <<>> /\ results = <<>>
        /\ out_file = file0
        /\ telegram = <<>>
        /\ Finished /\ exit_code = 1
        /\ pc = "responded" => (response.status = "error" /\ response.http = 500)

C5_Witness ==
    /\ load = "raised" /\ pc = "responded" /\ launch = "http"
    /\ response.status = "error" /\ response.http = 500
    /\ file0 = StaleFile /\ out_file = StaleFile

\* C6: every scan that finishes its loop invokes exactly one notification
\* path: with at least one match the file is written first and then
\* sendDocument is invoked for that file; with no match the file is left
\* as it was and sendText is invoked.
C6_Reporting ==
    /\ Len(telegram) <= 1
    /\ pc \in {"idle", "load", "loop", "report"} => (telegram = <<>> /\ out_file = file0)
    /\ pc = "send_file" =>
          /\ results # <<>> /\ telegram = <<>>
          /\ out_file = [exists |-> TRUE, rows |-> results, writes |-> file0.writes + 1]
    /\ (Loaded /\ Finished) =>
          /\ Len(telegram) = 1
          /\ IF results # <<>>
             THEN /\ telegram[1].op = "sendDocument"
                  /\ telegram[1].document = out_file
                  /\ out_file = [exists |-> TRUE, rows |-> results,
                                 writes |-> file0.writes + 1]
             ELSE /\ telegram[1].op = "sendText"
                  /\ out_file = file0

\* A scan with matches has replaced a file left by an earlier scan and
\* handed the new file to sendDocument
C6_Witness ==
    /\ Loaded /\ Finished
    /\ file0 = StaleFile /\ out_file.rows # file0.rows
    /\ results # <<>> /\ out_file.rows = results
    /\ telegram[1].op = "sendDocument" /\ telegram[1].document = out_file

\* A scan without matches has left the earlier file alone and sent the text
C6_WitnessNoMatch ==
    /\ Loaded /\ Finished /\ Len(syms) > 0
    /\ file0 = StaleFile /\ out_file = StaleFile
    /\ results = <<>> /\ telegram[1].op = "sendText"

Keys(q) == [j \in DOMAIN q |-> <<q[j].score, q[j].avg_qv_6w>>]

\* C7: in the final match list each record has a strictly higher score than
\* the next one, or the same score and an average volume at least as high;
\* the ranking (the sequence of scores and volumes) is the same for every
\* order in which the matches could have been collected.
C7_Ranking ==
    AfterLoop =>
        /\ \A j \in 1..(Len(results) - 1) :
              \/ results[j].score > results[j + 1].score
              \/ /\ results[j].score = results[j + 1].score
                 /\ results[j].avg_qv_6w >= results[j + 1].avg_qv_6w
        /\ \A p \in Shuffles(DOMAIN results) :
              Keys(SortResults([j \in DOMAIN results |-> results[p[j]]])) = Keys(results)

\* Three matches, ranked against the processing order: a tie on the score
\* broken by the volume, then a lower score
C7_Witness ==
    /\ AfterLoop /\ Len(results) = 3
    /\ results[1].score = results[2].score
    /\ results[1].avg_qv_6w > results[2].avg_qv_6w
    /\ results[2].score > results[3].score
    /\ results[1].symbol > results[2].symbol
    /\ results[3].symbol < results[2].symbol

\* C8: sendDocument and sendText make no transport request without
\* credentials, catch a failure of the transport or of opening the file,
\* and always return normally: the scan ends with the result and the exit
\* status it has when the notification succeeds.
C8_BestEffortNotification ==
    /\ \A j \in DOMAIN telegram :
          /\ telegram[j].flow = "return"
          /\ ~telegram[j].creds => ~telegram[j].requested
    /\ (Finished /\ telegram # <<>>) => exit_code = 0
    /\ (pc = "responded" /\ telegram # <<>>) => (response.status = "ok" /\ response.http = 200)
    /\ (Finished /\ telegram # <<>> /\ results # <<>>) => out_file.rows = results

\* A notification whose transport failed, after which the scan ended with
\* exit status 0 and the trigger answered ok
C8_Witness ==
    /\ pc = "responded" /\ response.status = "ok" /\ exit_code = 0
    /\ telegram # <<>> /\ telegram[1].failed /\ telegram[1].requested
    /\ telegram[1].op = "sendDocument"

(***************************************************************************)
(* Claims about screen(), continued                                        *)
(***************************************************************************)
\* What the series in df would be with the history of MinBars bars
FullHistory == [df EXCEPT !.len = MinBars]

\* C11: a series of fewer than 35 bars is evaluated to None, whatever its
\* values, the minimum volume and the minimum price.
C11_MinimumHistory ==
    (Evaluated /\ df.len < MinBars) => rec = None

\* A series of 34 bars was evaluated to None although the same values with
\* 35 bars make a match record
C11_Witness ==
    /\ Evaluated /\ df.len = MinBars - 1 /\ rec = None
    /\ screen(FullHistory, min_qv, min_price).kind = "rec"

\* The last close or one of the last six quote volumes is the missing value
Malformed(d) ==
    d.close.nan \/ \E j \in DOMAIN d.quoteAssetVolume : d.quoteAssetVolume[j].nan

\* C12: a series whose last close or any of whose last six quote volumes is
\* missing is evaluated to None, and the evaluation does not raise.
C12_MalformedRejected ==
    (Evaluated /\ df.len >= MinBars /\ Malformed(df)) => rec = None

\* The average of the last six volumes, as a fraction
AvgOf(d) == TailMean(d.quoteAssetVolume)
\* The series in df with another tail of quote volumes
WithVolumes(vt) == [df EXCEPT !.quoteAssetVolume = vt]
\* Of two match records of series that differ in the volumes only, the one
\* with the average volume at least as high has the score at least as high
MonotoneInVolume ==
    \A vt \in VolTails :
        LET other == screen(WithVolumes(vt), min_qv, min_price)
        IN  (/\ other.kind = "rec"
             /\ AvgOf(WithVolumes(vt)).num * AvgOf(df).den
                    >= AvgOf(df).num * AvgOf(WithVolumes(vt)).den)
            => other.score >= rec.score
\* The volume term of the score is at most 1.0
VolumeTermCapped == rec.score - Bonus(macd(df)) <= 1000

\* C13 as stated: for every minimum volume screen() accepts, the score of a
\* match does not decrease when the average volume increases with the other
\* factors fixed, and the volume term never exceeds 1.0.
C13_ScoreMonotone ==
    (Evaluated /\ rec.kind = "rec") => (MonotoneInVolume /\ VolumeTermCapped)

\* C13 for a positive minimum volume
C13_ScoreMonotonePositiveMinVol ==
    (Evaluated /\ rec.kind = "rec" /\ min_qv > 0) =>
        (MonotoneInVolume /\ VolumeTermCapped)

\* A match below the cap, next to which the same series with a higher
\* volume scores strictly more and one at the cap scores what the series
\* with a still higher volume does
C13_Witness ==
    /\ Evaluated /\ rec.kind = "rec" /\ min_qv > 0
    /\ rec.score - Bonus(macd(df)) < 1000
    /\ \E vt, wt \in VolTails :
          LET a == screen(WithVolumes(vt), min_qv, min_price)
              b == screen(WithVolumes(wt), min_qv, min_price)
          IN  /\ a.kind = "rec" /\ b.kind = "rec"
              /\ AvgOf(WithVolumes(vt)).num * AvgOf(WithVolumes(wt)).den
                    < AvgOf(WithVolumes(wt)).num * AvgOf(WithVolumes(vt)).den
              /\ rec.score < a.score /\ a.score = b.score
              /\ a.score - Bonus(macd(df)) = 1000

(***************************************************************************)
(* Claims about get_all_usdt_spot_symbols()                                *)
(***************************************************************************)
\* name ends in x
EndsWith(name, x) ==
    Len(name) >= Len(x) /\ SubSeq(name, Len(name) - Len(x) + 1, Len(name)) = x
\* name ends in UP, DOWN, BULL or BEAR followed by the quote currency
EndsInLeveragedSuffix(name) == \E x \in LeveragedPatterns : EndsWith(name, x)

Ord(c) == CHOOSE k \in 1..26 :
    <<"A", "B", "C", "D", "E", "F", "G", "H", "I", "J", "K", "L", "M", "N",
      "O", "P", "Q", "R", "S", "T", "U", "V", "W", "X", "Y", "Z">>[k] = c
\* a < b in the order of strings
RECURSIVE LexLess(_, _)
LexLess(a, b) ==
    IF b = <<>> THEN FALSE
    ELSE IF a = <<>> THEN TRUE
    ELSE IF Head(a) # Head(b) THEN Ord(Head(a)) < Ord(Head(b))
    ELSE LexLess(Tail(a), Tail(b))

NameOf(n) == (CHOOSE e \in EntryPool : e.symbol = n).name
\* The names the claim puts in the universe of a snapshot
ClaimedUniverse(snapshot) ==
    {e.name : e \in {x \in snapshot :
        /\ x.status = "TRADING" /\ x.quoteAsset = "USDT"
        /\ x.isSpotTradingAllowed /\ ~EndsInLeveragedSuffix(x.name)}}

\* C14: the loader returns exactly the names of the snapshot that are
\* trading, quoted in USDT, open to spot trading and do not end in a
\* leveraged-token suffix, in ascending string order; it returns that list
\* or raises, and never returns part of it.
C14_UniverseFilter ==
    /\ universe.kind \in {"pending", "return", "raise"}
    /\ universe.kind = "return" =>
          /\ {NameOf(universe.syms[j]) : j \in DOMAIN universe.syms}
                = ClaimedUniverse(info)
          /\ \A j \in 1..(Len(universe.syms) - 1) :
                LexLess(NameOf(universe.syms[j]), NameOf(universe.syms[j + 1]))

(***************************************************************************)
(* Claims about two scans                                                  *)
(***************************************************************************)
\* C15: two scans over the same universe and the same market data, in
\* which each mirror answers a request the same way both times, produce the
\* same Scan Result, the same records in the same order, whatever mirror
\* orders the shuffle picks for their calls.
C15_ShuffleDeterminism ==
    Len(twin.done) = 2 => twin.done[1] = twin.done[2]

\* Two finished scans with the same three-row result in a market where, for
\* some symbol, the outcome of the first attempt depends on the mirror
\* order (the first mirror answers 404, or 503, the others 200)
C15_Witness ==
    /\ Len(twin.done) = 2 /\ twin.done[1] = twin.done[2]
    /\ Len(twin.done[1].rows) = MaxSymbols
    /\ twin.done[1].rows[1].symbol > twin.done[1].rows[2].symbol
    /\ \E a, b \in 1..MaxSymbols :
          /\ market.klines[a].srv[BINANCE_ENDPOINTS[1]] = Response(404)
          /\ market.klines[b].srv[BINANCE_ENDPOINTS[1]] = Response(503)
    /\ market.info_srv[BINANCE_ENDPOINTS[1]] = Response(503)

\* Two finished scans that both skipped a symbol no mirror serves
C15_WitnessSkipped ==
    /\ Len(twin.done) = 2 /\ twin.done[1] = twin.done[2]
    /\ ~twin.done[1].aborted
    /\ Len(twin.done[1].rows) = MaxSymbols - 1
    /\ \E a \in 1..MaxSymbols :
          \A m \in Mirrors : market.klines[a].srv[m] = Response(503)

(***************************************************************************)
(* Claims about app.run()                                                  *)
(***************************************************************************)
\* C16: every response of the trigger is a JSON object with status "ok" or
\* "error" and a ran_at_utc timestamp; "ok" is answered only when the scan
\* finished successfully; a failed scan is answered with status "error", a
\* message and HTTP 500, never with an unhandled exception.
C16_TriggerStatus ==
    pc = "responded" =>
        /\ response.status \in {"ok", "error"}
        /\ {"status", "ran_at_utc"} \subseteq response.keys
        /\ response.status = "ok" => exit_code = 0
        /\ exit_code # 0 =>
              /\ response.status = "error" /\ response.http = 500
              /\ "message" \in response.keys

\* C16 without the timestamp
C16_StatusWithoutTimestamp ==
    pc = "responded" =>
        /\ response.status \in {"ok", "error"}
        /\ "status" \in response.keys
        /\ response.status = "ok" <=> exit_code = 0
        /\ response.status = "ok" => (response.http = 200 /\ "ran_at_utc" \in response.keys)
        /\ response.status = "error" => (response.http = 500 /\ "message" \in response.keys)

(***************************************************************************)
(* Claims about binance_get(), continued                                   *)
(***************************************************************************)
\* C17: within one call a backoff sleep happens only after a failed attempt
\* that leaves another mirror to try; a call that fails on all N mirrors
\* sleeps N - 1 times and not after the last failure; a call that succeeds
\* on its first mirror does not sleep.
C17_BackoffPlacement ==
    /\ \A j \in DOMAIN fetch.slept : fetch.slept[j] + 1 < Len(fetch.endpoints)
    /\ (fetch.at = "raised" /\ Len(fetch.contacted) = NumMirrors)
          => Len(fetch.slept) = NumMirrors - 1
    /\ (fetch.at = "returned" /\ Len(fetch.contacted) = 1) => fetch.slept = <<>>

\* Where the code sleeps: once after every failed attempt, the last included
C17_SleepAfterEveryFailure ==
    /\ fetch.at \in {"loop", "raised"} => Len(fetch.slept) = Len(fetch.contacted)
    /\ fetch.at = "returned" => Len(fetch.slept) = Len(fetch.contacted) - 1
    /\ \A j \in DOMAIN fetch.slept : fetch.slept[j] = j - 1

(***************************************************************************)
(* Termination                                                             *)
(***************************************************************************)
\* The scan is over: reporting is done, or the universe load has failed
ScanEnded ==
    /\ pc \in {"exit", "responded"}
    /\ \/ load = "raised" /\ exit_code = 1
       \/ load = "returned" /\ telegram # <<>> /\ Len(trace) = Len(syms)
\* No call attempts more than N mirrors; the loop visits the universe in
\* order, each instrument at most once
BoundedWork ==
    /\ Len(fetch.contacted) <= NumMirrors
    /\ Len(trace) <= Len(syms)
    /\ \A j \in DOMAIN trace : trace[j].sym = syms[j]
    /\ NoRepeat(syms)

\* A call or a scan is under way
Running ==
    \/ fetch.at = "loop"
    \/ pc \in {"load", "loop", "report", "send_file"}
    \/ pc = "exit" /\ launch = "http"
\* The steps a call or a scan has left, at most
StepsLeft ==
    (IF fetch.at = "loop" THEN Len(fetch.endpoints) - fetch.attempt + 1 ELSE 0)
    + (CASE pc = "load" -> MaxSymbols + 5
         [] pc = "loop" -> Len(syms) - Len(trace) + 4
         [] pc = "report" -> 3
         [] pc = "send_file" -> 2
         [] pc = "exit" -> IF launch = "http" THEN 1 ELSE 0
         [] OTHER -> 0)

\* C18: when every network attempt and every sleep returns, a fetch call
\* ends after at most N mirror attempts, and a scan ends, with reporting
\* done or aborted by the failure of the universe load; no instrument is
\* visited twice.  In finite-run form: a call or scan under way can always
\* take a step, every step leaves fewer steps to take, and a scan that has
\* stopped has ended.
C18_Termination ==
    /\ [](BoundedWork /\ StepsLeft >= 0)
    /\ [](Running => ENABLED <<TermStep>>_vars)
    /\ [][Running => StepsLeft' < StepsLeft]_vars
    /\ []((pc # "idle" /\ ~Running) => ScanEnded)

\* The same as eventualities, under the weak fairness of SpecTerm
C18_Eventually ==
    /\ (fetch.at = "loop") ~> (fetch.at \in {"returned", "raised"})
    /\ (pc = "load") ~> ScanEnded

\* A scan that has visited every instrument of a full universe once and is
\* over with reporting done
C18_Witness ==
    /\ ScanEnded /\ load = "returned"
    /\ Len(syms) = MaxSymbols /\ Len(trace) = MaxSymbols
    /\ \E j \in DOMAIN trace : trace[j].fetch = "raised"

\* A call that has ended after N failed attempts
C18_WitnessCall ==
    /\ launch = "call" /\ fetch.at = "raised"
    /\ Len(fetch.contacted) = NumMirrors

(***************************************************************************)
(* Claims about the score                                                  *)
(***************************************************************************)
CutUp(i) == crossed_up(i.m_prev, i.m_now, i.s_prev, i.s_now)

\* C19: a fresh crossover is also "near above", so every match record with
\* a fresh crossover has both the 1.0 and the 0.5 bonus, every match record
\* has the 0.5 bonus, and with a positive minimum volume the score of a
\* match record lies in [0.5, 3.2].
C19_ScoreRange ==
    Evaluated =>
        LET i == macd(df)
        IN  /\ CutUp(i) => on_top_small(i)
            /\ rec.kind = "rec" =>
                  /\ on_top_small(i)
                  /\ Bonus(i) >= 500
                  /\ CutUp(i) => Bonus(i) >= 1500
                  /\ min_qv > 0 => (rec.score >= 500 /\ rec.score <= 3200)

\* A match record with a fresh crossover, outside the tolerance, and the
\* highest score
C19_Witness ==
    /\ Evaluated /\ rec.kind = "rec" /\ min_qv > 0
    /\ CutUp(macd(df)) /\ ~OnTopWithinTolerance(macd(df))
    /\ rec.score = 3200

\* A match record without a fresh crossover and with the lowest score
C19_WitnessLow ==
    /\ Evaluated /\ rec.kind = "rec" /\ min_qv > 0
    /\ ~CutUp(macd(df))
    /\ rec.score = 600

(***************************************************************************)
(* Claims about requests served at once                                    *)
(***************************************************************************)
\* The scanner processes that have args.out open for writing
Writers == {p \in Requests : procs[p].pc = "writing"}

\* C20: scans started through /run never overlap on the output file: at
\* most one scanner process is between opening and closing the file, and
\* the file a scan hands to sendDocument holds exactly that scan's rows.
C20_NoOverlapOnOutput ==
    /\ Cardinality(Writers) <= 1
    /\ \A p \in Requests : procs[p].sent => procs[p].document = procs[p].rows

\* What holds of the file whatever the interleaving: a scan without matches
\* neither writes nor sends it, and what is sent is empty or the rows of
\* one of the scans
C20_FileOfSomeScan ==
    \A p \in Requests :
        /\ procs[p].sent => HasMatches(procs[p].rows)
        /\ procs[p].sent =>
              \/ procs[p].document = <<>>
              \/ \E q \in Requests : procs[p].document = procs[q].rows

====
